---- MODULE Spec2Model ----
(***************************************************************************)
(* Proof-of-Life verification session protocol.                           *)
(*                                                                         *)
(* The durable store (sessions table, nonces table, audit log) is modelled *)
(* from app/services/database_service_sqlite_backup.py and                 *)
(* app/services/database_service.py.  The session state machine            *)
(* (SessionManager) and the verification orchestrator (the WebSocket       *)
(* endpoint of main.py) are modelled from the specification on top of that *)
(* store.                                                                  *)
(***************************************************************************)
EXTENDS Integers, Sequences, FiniteSets, TLC

VARIABLES
    now,          \* wall clock, whole seconds (time.time())
    sessions,     \* sessions table: session_id -> row
    audit_logs,   \* audit_logs table, as the set of its entries
    hist,         \* history: the results handed to record_result, per session
    raised,       \* outcome of the last state-machine call: "ok" or an error name
    nonces,       \* nonces table: nonce -> [session_id, expires_at]
    results,      \* verification_results table, as the set of its rows
    tokens,       \* the credentials issued so far (their payloads)
    chan,         \* per session id: the state of its channel
    out,          \* per session id: the message types sent on its channel
    progress,     \* per session id: channels bound, results and successes on the current one
    handled,      \* the last call or handler: its name, its session, what it saw
    inflight,     \* record_result calls between their read and their write
    purged,       \* the nonces a purge has removed so far
    sequence,     \* the last generate_challenge_sequence call: its count and what it returned
    decoded,      \* what verify_challenge read back from a challenge_id
    sent,         \* the messages a WebSocketHandler has sent on its socket
    events,       \* the types of the feedback events handed to that handler
    jwt_token,    \* the token of the last issue_jwt_token call
    validation,   \* the TokenValidation of the last validate_token call
    scored        \* the last compute_final_score call: its scores and what it returned

smVars == <<sessions, audit_logs, hist, raised>>
orchVars == <<nonces, results, tokens, chan, out, progress>>
unitVars == <<sequence, decoded, sent, events, jwt_token, validation, scored>>
vars == <<now, sessions, audit_logs, hist, raised, nonces, results, tokens,
          chan, out, progress, handled, inflight, purged,
          sequence, decoded, sent, events, jwt_token, validation, scored>>

------------------------------------------------------------------------------
(* Bounds of the model *)

\* The clock stops advancing at MaxNow.
MaxNow == 121
\* At most MaxResults challenge results are recorded, over all sessions.
MaxResults == 5
\* At most MaxTerminations termination entries are written, over all sessions.
MaxTerminations == 2

(* Program constants *)

\* A mutant: the cap read as minutes and converted twice.
MAX_SESSION_DURATION_SECONDS_twice == 120 * 60
\* A mutant: the cap one second short.
MAX_SESSION_DURATION_SECONDS_short == 120 - 1
MAX_SESSION_DURATION_SECONDS == 120
MAX_CONSECUTIVE_FAILURES_one == 3 - 2
MAX_CONSECUTIVE_FAILURES == 3

(* Input domains *)

Users == {"user1"}
SessionIds == {"s1", "s2"}
\* An id that create never allocates ("nonexistent_session" in the tests).
UnknownIds == {"nonexistent_session"}
AllIds == SessionIds \cup UnknownIds
TickSteps == {121}
Reasons == {"timeout", "max_failures", "completed", "security_violation"}

------------------------------------------------------------------------------
(* Python's Optional[T]: None is the empty tuple, a value v is <<v>>. *)

None == <<>>
Some(v) == <<v>>
ValueOf(opt) == opt[1]

(* SessionStatus enum values, as stored in the status column. *)
ACTIVE == "active"
COMPLETED == "completed"
FAILED == "failed"
TIMEOUT == "timeout"
TerminalStatuses == {COMPLETED, FAILED, TIMEOUT}

------------------------------------------------------------------------------
(* DatabaseService: session operations *)

\* A mutant: the row is inserted with its end_time set to the start time.
create_session_ended(tbl, session_id, user_id, start_time) ==
    [sid \in DOMAIN tbl \cup {session_id} |->
        IF sid = session_id
        THEN [user_id |-> user_id, start_time |-> start_time,
              end_time |-> Some(start_time), status |-> ACTIVE, failed_count |-> 0]
        ELSE tbl[sid]]

\* INSERT INTO sessions (...) VALUES (sid, uid, start, 'active', 0); end_time NULL.
create_session(tbl, session_id, user_id, start_time) ==
    [sid \in DOMAIN tbl \cup {session_id} |->
        IF sid = session_id
        THEN [user_id |-> user_id, start_time |-> start_time, end_time |-> None,
              status |-> ACTIVE, failed_count |-> 0]
        ELSE tbl[sid]]

\* SELECT ... WHERE session_id = ?; the row or None.
\* A mutant: the SELECT has no WHERE clause, fetchone() takes whichever row comes.
get_session_anyrow(tbl, session_id) ==
    IF session_id \in DOMAIN tbl THEN Some(tbl[session_id])
    ELSE IF DOMAIN tbl = {} THEN None
    ELSE Some(tbl[CHOOSE sid \in DOMAIN tbl : TRUE])

get_session(tbl, session_id) ==
    IF session_id \in DOMAIN tbl THEN Some(tbl[session_id]) ELSE None

\* A mutant: the truthiness test "if failed_count:" instead of "is not None",
\* which drops a write of 0.
update_session_falsy(tbl, session_id, status, failed_count, end_time) ==
    [sid \in DOMAIN tbl |->
        IF sid = session_id
        THEN [tbl[sid] EXCEPT
                !.status = IF status # None THEN ValueOf(status) ELSE @,
                !.failed_count = IF failed_count # None /\ ValueOf(failed_count) # 0
                                 THEN ValueOf(failed_count) ELSE @,
                !.end_time = IF end_time # None THEN end_time ELSE @]
        ELSE tbl[sid]]

\* A mutant: the UPDATE statement without its WHERE clause, so every row is
\* written.
update_session_nowhere(tbl, session_id, status, failed_count, end_time) ==
    [sid \in DOMAIN tbl |->
        [tbl[sid] EXCEPT
            !.status = IF status # None THEN ValueOf(status) ELSE @,
            !.failed_count = IF failed_count # None THEN ValueOf(failed_count) ELSE @,
            !.end_time = IF end_time # None THEN end_time ELSE @]]

\* A mutant: INSERT OR REPLACE instead of UPDATE, so the columns that are not
\* given fall back to their defaults (status 'active', end_time NULL).
update_session_replace(tbl, session_id, status, failed_count, end_time) ==
    [sid \in DOMAIN tbl |->
        IF sid = session_id
        THEN [tbl[sid] EXCEPT
                !.status = IF status # None THEN ValueOf(status) ELSE ACTIVE,
                !.failed_count = IF failed_count # None THEN ValueOf(failed_count) ELSE 0,
                !.end_time = end_time]
        ELSE tbl[sid]]

\* A mutant: the status column is left out of the UPDATE.
update_session_nostatus(tbl, session_id, status, failed_count, end_time) ==
    [sid \in DOMAIN tbl |->
        IF sid = session_id
        THEN [tbl[sid] EXCEPT
                !.failed_count = IF failed_count # None THEN ValueOf(failed_count) ELSE @,
                !.end_time = IF end_time # None THEN end_time ELSE @]
        ELSE tbl[sid]]

\* A mutant: the end_time column is left out of the UPDATE.
update_session_noend(tbl, session_id, status, failed_count, end_time) ==
    [sid \in DOMAIN tbl |->
        IF sid = session_id
        THEN [tbl[sid] EXCEPT
                !.status = IF status # None THEN ValueOf(status) ELSE @,
                !.failed_count = IF failed_count # None THEN ValueOf(failed_count) ELSE @]
        ELSE tbl[sid]]

\* UPDATE sessions SET <the fields that are not None> WHERE session_id = ?.
\* No field given: return at once.  An unknown id matches no row.  The
\* statement does not look at the row's current status.
update_session(tbl, session_id, status, failed_count, end_time) ==
    IF status = None /\ failed_count = None /\ end_time = None
    THEN tbl
    ELSE [sid \in DOMAIN tbl |->
            IF sid = session_id
            THEN [tbl[sid] EXCEPT
                    !.status = IF status # None THEN ValueOf(status) ELSE @,
                    !.failed_count = IF failed_count # None
                                     THEN ValueOf(failed_count) ELSE @,
                    !.end_time = IF end_time # None THEN end_time ELSE @]
            ELSE tbl[sid]]

(* DatabaseService: audit log *)

\* INSERT INTO audit_logs (...): one more entry.
\* The set keeps an entry's session, user, event type and details; log_id and
\* timestamp are not kept (a termination's time is its details.duration).
save_audit_log(logs, session_id, user_id, event_type, timestamp, details) ==
    logs \cup {[session_id |-> session_id, user_id |-> user_id,
                event_type |-> event_type, details |-> details]}

NoDetails == [reason |-> "", duration |-> 0]

------------------------------------------------------------------------------
(* Session state machine (SessionManager) *)

\* reason -> status; an unlisted reason cannot be passed (Reasons is closed).
StatusFor(reason) ==
    CASE reason = "timeout" -> TIMEOUT
      [] reason = "max_failures" -> FAILED
      [] reason = "completed" -> COMPLETED
      [] reason = "security_violation" -> FAILED

\* The counter after one result: 0 on success, one more on failure.
NextFailedCount(row, completed) ==
    IF completed THEN 0 ELSE row.failed_count + 1

\* is_timed_out: unknown session counts as timed out; else elapsed > 120 s.
is_timed_out(tbl, session_id, t) ==
    LET s == get_session(tbl, session_id) IN
    IF s = None THEN TRUE
    ELSE (t - ValueOf(s).start_time) > MAX_SESSION_DURATION_SECONDS

\* is_over_failure_limit: unknown session counts as over the limit.
is_over_failure_limit(tbl, session_id) ==
    LET s == get_session(tbl, session_id) IN
    IF s = None THEN TRUE
    ELSE ValueOf(s).failed_count >= MAX_CONSECUTIVE_FAILURES

\* The sessions table after record_result(session_id, result).
record_result_tbl(tbl, session_id, completed) ==
    LET s == get_session(tbl, session_id) IN
    IF s = None THEN tbl
    ELSE update_session(tbl, session_id, None,
                        Some(NextFailedCount(ValueOf(s), completed)), None)

\* The audit log after record_result(session_id, result).
record_result_log(tbl, logs, session_id, completed, t) ==
    LET s == get_session(tbl, session_id) IN
    IF s = None THEN logs
    ELSE save_audit_log(logs, session_id, ValueOf(s).user_id,
                        IF completed THEN "challenge_completed" ELSE "challenge_failed",
                        t, NoDetails)

\* The history after record_result(session_id, result).
record_result_hist(tbl, h, session_id, completed) ==
    IF get_session(tbl, session_id) = None THEN h
    ELSE [h EXCEPT ![session_id] = Append(@, completed)]

\* A mutant: the status column is not read, every session looks ACTIVE.
StatusOf_unread(tbl, session_id) == ACTIVE

\* The status a session has, "" for an unknown id.
StatusOf(tbl, session_id) ==
    IF get_session(tbl, session_id) = None THEN ""
    ELSE ValueOf(get_session(tbl, session_id)).status

\* The sessions table after terminate(session_id, reason) at time t.
terminate_tbl(tbl, session_id, reason, t) ==
    LET s == get_session(tbl, session_id) IN
    IF s = None THEN tbl
    ELSE update_session(tbl, session_id, Some(StatusFor(reason)), None, Some(t))

\* A mutant: terminate writes no audit entry.
terminate_log_lost(tbl, logs, session_id, reason, t) == logs

\* The audit log after terminate(session_id, reason) at time t.
terminate_log(tbl, logs, session_id, reason, t) ==
    LET s == get_session(tbl, session_id) IN
    IF s = None THEN logs
    ELSE save_audit_log(logs, session_id, ValueOf(s).user_id, "session_terminated",
                        t, [reason |-> reason, duration |-> t - ValueOf(s).start_time])

TerminationsOf(logs, session_id) ==
    {e \in logs : e.session_id = session_id /\ e.event_type = "session_terminated"}

Terminations(logs) == {e \in logs : e.event_type = "session_terminated"}

RECURSIVE SumLen(_, _)
SumLen(h, ids) ==
    IF ids = {} THEN 0
    ELSE LET i == CHOOSE x \in ids : TRUE IN Len(h[i]) + SumLen(h, ids \ {i})

------------------------------------------------------------------------------
(* Actions of the state machine, called directly *)

\* str(uuid.uuid4()): an id no session has; which one is immaterial, the model
\* hands them out in order.
fresh_session_id(tbl) ==
    IF "s1" \notin DOMAIN tbl THEN {"s1"}
    ELSE IF "s2" \notin DOMAIN tbl THEN {"s2"} ELSE {}

NoHandler == [op |-> "none", sid |-> "", arg |-> "", score |-> 0]

\* create(user_id): a fresh session id, the row, the "session_created" entry.
Create(user_id) ==
    \E sid \in fresh_session_id(sessions) :
        /\ sessions' = create_session(sessions, sid, user_id, now)
        /\ audit_logs' = save_audit_log(audit_logs, sid, user_id, "session_created",
                                        now, NoDetails)
        /\ raised' = "ok"
        /\ handled' = NoHandler
        /\ UNCHANGED <<now, hist, inflight, purged>>
        /\ UNCHANGED unitVars
        /\ UNCHANGED orchVars

\* record_result(session_id, result): SessionNotFound on an unknown id.
RecordResult(session_id, completed) ==
    /\ SumLen(hist, AllIds) < MaxResults
    /\ sessions' = record_result_tbl(sessions, session_id, completed)
    /\ audit_logs' = record_result_log(sessions, audit_logs, session_id, completed, now)
    /\ hist' = record_result_hist(sessions, hist, session_id, completed)
    /\ raised' = IF get_session(sessions, session_id) = None THEN "SessionNotFound"
                 ELSE "ok"
    /\ handled' = [op |-> "record_result", sid |-> session_id,
                   arg |-> StatusOf(sessions, session_id), score |-> 0]
    /\ UNCHANGED <<now, inflight, purged>>
    /\ UNCHANGED unitVars
    /\ UNCHANGED orchVars

\* terminate(session_id, reason): a no-op on an unknown id.
Terminate(session_id, reason) ==
    /\ Cardinality(Terminations(audit_logs)) < MaxTerminations
    /\ sessions' = terminate_tbl(sessions, session_id, reason, now)
    /\ audit_logs' = terminate_log(sessions, audit_logs, session_id, reason, now)
    /\ raised' = "ok"
    /\ handled' = [op |-> "terminate", sid |-> session_id, arg |-> reason, score |-> 0]
    /\ UNCHANGED <<now, hist, inflight, purged>>
    /\ UNCHANGED unitVars
    /\ UNCHANGED orchVars

\* A mutant: the timeout detection finds no session.
SweepTargets_none(tbl, t) == {}

\* The sessions the sweep's timeout detection picks: ACTIVE and timed out.
SweepTargets(tbl, t) ==
    {sid \in DOMAIN tbl : tbl[sid].status = ACTIVE /\ is_timed_out(tbl, sid, t)}

RECURSIVE sweep_tbl(_, _, _)
sweep_tbl(tbl, ids, t) ==
    IF ids = {} THEN tbl
    ELSE LET i == CHOOSE x \in ids : TRUE IN
         sweep_tbl(terminate_tbl(tbl, i, "timeout", t), ids \ {i}, t)

RECURSIVE sweep_log(_, _, _, _)
sweep_log(tbl, logs, ids, t) ==
    IF ids = {} THEN logs
    ELSE LET i == CHOOSE x \in ids : TRUE IN
         sweep_log(tbl, terminate_log(tbl, logs, i, "timeout", t), ids \ {i}, t)

\* A mutant: the DELETE is never committed.
purge_expired_nonces_lost(tbl, t) == tbl

\* A mutant: the DELETE compares with <=.
purge_expired_nonces_lte(tbl, t) ==
    [n \in {m \in DOMAIN tbl : ~(tbl[m].expires_at <= t)} |-> tbl[n]]

\* cursor.rowcount of that DELETE: the rows its WHERE clause matched.
purge_expired_nonces_rowcount(tbl, t) ==
    Cardinality({n \in DOMAIN tbl : tbl[n].expires_at < t})

\* DELETE FROM nonces WHERE expires_at < current_time.
purge_expired_nonces(tbl, t) ==
    [n \in {m \in DOMAIN tbl : ~(tbl[m].expires_at < t)} |-> tbl[n]]

\* One run of the background sweep: timeout detection, then the nonce purge.
Sweep ==
    /\ SweepTargets(sessions, now) # {}
    /\ sessions' = sweep_tbl(sessions, SweepTargets(sessions, now), now)
    /\ audit_logs' = sweep_log(sessions, audit_logs, SweepTargets(sessions, now), now)
    /\ nonces' = purge_expired_nonces(nonces, now)
    /\ raised' = "ok"
    /\ handled' = NoHandler
    /\ purged' = purged \cup {n \in DOMAIN nonces : nonces[n].expires_at < now}
    /\ UNCHANGED <<now, hist, results, tokens, chan, out, progress, inflight>>
    /\ UNCHANGED unitVars

\* The clock advances.
Tick(d) ==
    /\ now + d <= MaxNow
    /\ now' = now + d
    /\ handled' = NoHandler
    /\ UNCHANGED smVars
    /\ UNCHANGED orchVars
    /\ UNCHANGED <<inflight, purged>>
    /\ UNCHANGED unitVars

------------------------------------------------------------------------------
(* The policy queries, asked at the session duration cap *)

\* The clock steps that bring a session to just under, at and just over the cap.
BoundarySteps == {119, 120, 121}

TickBoundary(d) ==
    /\ d \in BoundarySteps
    /\ Tick(d)

BoolName(b) == IF b THEN "true" ELSE "false"

\* is_timed_out(session_id) is asked; handled keeps the answer.
CheckTimeout(session_id) ==
    /\ handled' = [op |-> "is_timed_out", sid |-> session_id,
                   arg |-> BoolName(is_timed_out(sessions, session_id, now)),
                   score |-> 0]
    /\ raised' = "ok"
    /\ UNCHANGED <<now, sessions, audit_logs, hist, inflight, purged>>
    /\ UNCHANGED unitVars
    /\ UNCHANGED orchVars

\* is_over_failure_limit(session_id) is asked; handled keeps the answer.
CheckFailureLimit(session_id) ==
    /\ handled' = [op |-> "is_over_failure_limit", sid |-> session_id,
                   arg |-> BoolName(is_over_failure_limit(sessions, session_id)),
                   score |-> 0]
    /\ raised' = "ok"
    /\ UNCHANGED <<now, sessions, audit_logs, hist, inflight, purged>>
    /\ UNCHANGED unitVars
    /\ UNCHANGED orchVars

------------------------------------------------------------------------------
(* DatabaseService: nonces and verification results *)

\* SELECT COUNT(*) FROM nonces WHERE nonce = ?  > 0.
check_nonce_used(tbl, nonce) == nonce \in DOMAIN tbl

\* A mutant: the INSERT is never committed.
store_nonce_lost(tbl, nonce, session_id, expires_at) == tbl

\* INSERT INTO nonces (nonce, session_id, created_at, expires_at).
store_nonce(tbl, nonce, session_id, expires_at) ==
    [n \in DOMAIN tbl \cup {nonce} |->
        IF n = nonce THEN [session_id |-> session_id, expires_at |-> expires_at]
        ELSE tbl[n]]

\* The INSERT is never committed: the table stays as it was.
save_verification_result_lost(rows, session_id, scoring_result) == rows

\* INSERT INTO verification_results (...): one more row.
save_verification_result(rows, session_id, scoring_result) ==
    rows \cup {[session_id |-> session_id,
                liveness_score |-> scoring_result.liveness_score,
                deepfake_score |-> scoring_result.deepfake_score,
                emotion_score |-> scoring_result.emotion_score,
                final_score |-> scoring_result.final_score,
                passed |-> scoring_result.passed]}

------------------------------------------------------------------------------
(* Scoring, credential, challenge sequence *)

\* Scores are held in hundredths (0.70 is 70), weighted sums in ten-thousandths.
ScoreLevels == {60, 80}
PassThreshold == 7000

\* A mutant: a final score of exactly 0.70 does not pass.
compute_final_score_strict(liveness, deepfake, emotion) ==
    LET final == 40 * liveness + 30 * deepfake + 30 * emotion IN
    [liveness_score |-> liveness, deepfake_score |-> deepfake,
     emotion_score |-> emotion, final_score |-> final,
     passed |-> final > PassThreshold]

\* final = 0.4 liveness + 0.3 deepfake + 0.3 emotion; passed iff final >= 0.70.
compute_final_score(liveness, deepfake, emotion) ==
    LET final == 40 * liveness + 30 * deepfake + 30 * emotion IN
    [liveness_score |-> liveness, deepfake_score |-> deepfake,
     emotion_score |-> emotion, final_score |-> final,
     passed |-> final >= PassThreshold]

TOKEN_EXPIRY_MINUTES == 15

\* time.time() is a float: the times a token carries are counted in ticks,
\* TicksPerSecond to the second, so that a time may fall between two seconds.
TicksPerSecond == 2
Fractions == 0 .. (TicksPerSecond - 1)

\* time.time() when the clock reads t whole seconds and f ticks
time_time(t, f) == t * TicksPerSecond + f

\* int(x) of a time: the fraction of a second is cut off
int(x) == (x \div TicksPerSecond) * TicksPerSecond

\* The payload issue_jwt_token signs.
issue_jwt_token(user_id, session_id, final_score, current_time) ==
    [sub |-> user_id, session_id |-> session_id, final_score |-> final_score,
     iat |-> current_time,
     exp |-> current_time + (TOKEN_EXPIRY_MINUTES * 60) * TicksPerSecond,
     iss |-> "proof-of-life-auth"]

\* generate_challenge_sequence(session_id, num_challenges = 3).
NumChallenges == 3
\* secrets.token_hex(16): the values a generated nonce can take.
Nonces == {"n1", "n2"}
NONCE_EXPIRY_HOURS == 24
\* Successes a channel needs before the scores are aggregated.
MinSuccesses == 3

------------------------------------------------------------------------------
(* The nonce store, called directly *)

\* The expiry times a caller hands to store_nonce: past, present and future
\* ones at both values of the clock.
ExpiryTimes == {-1, 0, 121, 122}

\* store_nonce(nonce, session_id, expires_at), for a nonce check_nonce_used
\* reports unused (what a second INSERT of a stored nonce does is decided by
\* schema.sql; callers store only after the check).
StoreNonce(nonce, session_id, expires_at) ==
    /\ ~check_nonce_used(nonces, nonce)
    /\ nonces' = store_nonce(nonces, nonce, session_id, expires_at)
    /\ handled' = [op |-> "store_nonce", sid |-> session_id, arg |-> nonce, score |-> 0]
    /\ raised' = "ok"
    /\ UNCHANGED <<now, sessions, audit_logs, hist, inflight, purged>>
    /\ UNCHANGED unitVars
    /\ UNCHANGED <<results, tokens, chan, out, progress>>

\* self._query("nonces:exists", {"nonce": nonce}) of the Convex-backed service:
\* the store's answer, None when the query raises (the store cannot be reached).
query_nonces_exists(tbl, nonce, fails) ==
    IF fails THEN None ELSE Some(nonce \in DOMAIN tbl)

\* check_nonce_used of the Convex-backed service: bool(result), and False
\* when the query raised (except Exception: return False).
check_nonce_used_convex(tbl, nonce, fails) ==
    LET result == query_nonces_exists(tbl, nonce, fails) IN
    IF result = None THEN FALSE ELSE ValueOf(result)

\* check_nonce_used(nonce) of the SQLite-backed service; handled keeps the answer.
CheckNonceUsed(nonce) ==
    /\ handled' = [op |-> "check_nonce_used", sid |-> "", arg |-> nonce,
                   score |-> IF check_nonce_used(nonces, nonce) THEN 1 ELSE 0]
    /\ raised' = "ok"
    /\ UNCHANGED <<now, sessions, audit_logs, hist, inflight, purged>>
    /\ UNCHANGED unitVars
    /\ UNCHANGED orchVars

\* check_nonce_used(nonce) of the Convex-backed service, the store reachable
\* or not; handled keeps the answer.
CheckNonceUsedConvex(nonce, fails) ==
    /\ handled' = [op |-> "check_nonce_used_convex", sid |-> "", arg |-> nonce,
                   score |-> IF check_nonce_used_convex(nonces, nonce, fails)
                             THEN 1 ELSE 0]
    /\ raised' = "ok"
    /\ UNCHANGED <<now, sessions, audit_logs, hist, inflight, purged>>
    /\ UNCHANGED unitVars
    /\ UNCHANGED orchVars

\* purge_expired_nonces(); handled keeps the count it returns.
PurgeNonces ==
    /\ nonces' = purge_expired_nonces(nonces, now)
    /\ purged' = purged \cup (DOMAIN nonces \ DOMAIN nonces')
    /\ handled' = [op |-> "purge_expired_nonces", sid |-> "", arg |-> "",
                   score |-> purge_expired_nonces_rowcount(nonces, now)]
    /\ raised' = "ok"
    /\ UNCHANGED <<now, sessions, audit_logs, hist, inflight>>
    /\ UNCHANGED unitVars
    /\ UNCHANGED <<results, tokens, chan, out, progress>>

------------------------------------------------------------------------------
(* Orchestrator: one channel per session *)

\* A session binds at most MaxBinds channels, one after the other.
MaxBinds == 2

\* What a handler works on: the tables, and the channel of its session.
World(sid) ==
    [sessions |-> sessions, audit_logs |-> audit_logs, nonces |-> nonces,
     results |-> results, tokens |-> tokens, msgs |-> out[sid], chan |-> chan[sid]]

\* terminate(sid, reason), then one closing message on the channel.
terminate_and_close(w, sid, reason, msg, t) ==
    [w EXCEPT !.sessions = terminate_tbl(w.sessions, sid, reason, t),
              !.audit_logs = terminate_log(w.sessions, w.audit_logs, sid, reason, t),
              !.msgs = Append(@, msg),
              !.chan = "closed"]

\* Issue a challenge sequence carrying nonce: a nonce already used is a replay,
\* which terminates the session; an unused one is recorded.
issue_sequence(w, sid, nonce, t) ==
    IF check_nonce_used(w.nonces, nonce)
    THEN terminate_and_close(w, sid, "security_violation", "error", t)
    ELSE [w EXCEPT !.nonces = store_nonce(@, nonce, sid, t + NONCE_EXPIRY_HOURS * 3600),
                   !.msgs = Append(@, "challenge_issued")]

\* Whether a channel may be bound to the session.
may_bind(tbl, sid, t) ==
    get_session(tbl, sid) # None /\ ~is_timed_out(tbl, sid, t)

\* A client connects for sid: bind and issue the first sequence, or refuse.
connect(w, sid, nonce, t) ==
    IF may_bind(w.sessions, sid, t)
    THEN issue_sequence([w EXCEPT !.msgs = <<>>, !.chan = "open"], sid, nonce, t)
    ELSE [w EXCEPT !.msgs = <<"error">>, !.chan = "closed"]

\* The aggregated scores are in: save the result, send it, then the verdict.
verdict(w, sid, scoring_result, reason, t) ==
    LET w1 == [w EXCEPT !.results = save_verification_result(@, sid, scoring_result),
                        !.msgs = Append(@, "score_update")] IN
    IF scoring_result.passed
    THEN [w1 EXCEPT !.tokens = @ \cup {issue_jwt_token(
                                       ValueOf(get_session(w.sessions, sid)).user_id,
                                       sid, scoring_result.final_score, time_time(t, 0))},
                    !.msgs = Append(@, "verification_success"),
                    !.chan = "closed"]
    ELSE terminate_and_close(w1, sid, reason, "verification_failed", t)

\* The progress of a channel after one more result.
next_progress(prog, completed) ==
    [prog EXCEPT !.done = @ + 1, !.ok = IF completed THEN @ + 1 ELSE @]

\* What the handler of a challenge result does with it.
branch_of(tbl, sid, completed, prog, t) ==
    LET tbl1 == record_result_tbl(tbl, sid, completed) IN
    IF StatusOf(tbl, sid) # ACTIVE THEN "stale"
    ELSE IF is_timed_out(tbl1, sid, t) THEN "timeout"
    ELSE IF is_over_failure_limit(tbl1, sid) THEN "max_failures"
    ELSE IF next_progress(prog, completed).ok >= MinSuccesses THEN "verdict"
    ELSE IF next_progress(prog, completed).done % NumChallenges = 0 THEN "issue"
    ELSE "next"

\* A challenge result arrives on the channel of sid.
process_challenge(w, sid, completed, prog, nonce, scoring_result, reason, t) ==
    LET b == branch_of(w.sessions, sid, completed, prog, t)
        w1 == [w EXCEPT !.sessions = record_result_tbl(w.sessions, sid, completed),
                        !.audit_logs = record_result_log(w.sessions, w.audit_logs, sid,
                                                         completed, t),
                        !.msgs = Append(@, IF completed THEN "challenge_completed"
                                                        ELSE "challenge_failed")]
    IN
    CASE b = "stale" -> [w EXCEPT !.msgs = Append(@, "error"), !.chan = "closed"]
      [] b = "timeout" -> terminate_and_close(w1, sid, "timeout", "error", t)
      [] b = "max_failures" -> terminate_and_close(w1, sid, "max_failures", "error", t)
      [] b = "verdict" -> verdict(w1, sid, scoring_result, reason, t)
      [] b = "issue" -> issue_sequence(w1, sid, nonce, t)
      [] b = "next" -> w1

\* The handler's world becomes the state.
Commit(w, sid) ==
    /\ sessions' = w.sessions
    /\ audit_logs' = w.audit_logs
    /\ nonces' = w.nonces
    /\ results' = w.results
    /\ tokens' = w.tokens
    /\ out' = [out EXCEPT ![sid] = w.msgs]
    /\ chan' = [chan EXCEPT ![sid] = w.chan]

\* A client opens the channel of sid.
Connect(sid) ==
    /\ chan[sid] # "open"
    /\ progress[sid].binds < MaxBinds
    /\ \E nonce \in IF may_bind(sessions, sid, now) THEN Nonces ELSE {""} :
          /\ Commit(connect(World(sid), sid, nonce, now), sid)
          /\ handled' = [op |-> "connect", sid |-> sid, arg |-> nonce, score |-> 0]
    /\ progress' = IF may_bind(sessions, sid, now)
                   THEN [progress EXCEPT ![sid] = [binds |-> @.binds + 1, done |-> 0, ok |-> 0]]
                   ELSE progress
    /\ raised' = "ok"
    /\ UNCHANGED <<now, hist, inflight, purged>>
    /\ UNCHANGED unitVars

ScoringResults ==
    {compute_final_score(l, d, e) : l \in ScoreLevels, d \in ScoreLevels, e \in ScoreLevels}

NoScores == compute_final_score(0, 0, 0)

\* A challenge result for sid arrives on its open channel.
ProcessChallenge(sid, completed) ==
    /\ chan[sid] = "open"
    /\ SumLen(hist, AllIds) < MaxResults
    /\ LET b == branch_of(sessions, sid, completed, progress[sid], now) IN
       \E nonce \in IF b = "issue" THEN Nonces ELSE {""},
          scoring_result \in IF b = "verdict" THEN ScoringResults ELSE {NoScores},
          reason \in IF b = "verdict" THEN Reasons ELSE {""} :
          /\ Commit(process_challenge(World(sid), sid, completed, progress[sid],
                                      nonce, scoring_result, reason, now), sid)
          /\ handled' = [op |-> b, sid |-> sid,
                         arg |-> IF b = "verdict" /\ scoring_result.passed THEN ""
                                 ELSE IF b = "verdict" THEN reason ELSE nonce,
                         score |-> scoring_result.final_score]
          /\ hist' = IF b = "stale" THEN hist
                     ELSE record_result_hist(sessions, hist, sid, completed)
          /\ progress' = IF b = "stale" THEN progress
                         ELSE [progress EXCEPT ![sid] = next_progress(@, completed)]
    /\ raised' = "ok"
    /\ UNCHANGED <<now, inflight, purged>>
    /\ UNCHANGED unitVars

------------------------------------------------------------------------------
(* record_result delivered concurrently: the read and the write are two
   statements, each on a connection of its own *)

\* The deliveries that can be under way at once.
Workers == {"w1", "w2"}

InFlight(session_id) ==
    {w \in Workers : inflight.call[w] # None
                     /\ ValueOf(inflight.call[w]).session_id = session_id}

\* No record_result call of the session is between its read and its write.
Quiescent(session_id) == InFlight(session_id) = {}

\* record_result, first half: get_session.  An unknown id raises at once.  The
\* ghost fields base and batch keep the counter at the last quiescent moment and
\* the results delivered since.
BeginRecordResult(w, session_id, completed) ==
    /\ inflight.call[w] = None
    /\ SumLen(hist, AllIds) + Cardinality({x \in Workers : inflight.call[x] # None})
          < MaxResults
    /\ LET s == get_session(sessions, session_id) IN
       IF s = None
       THEN /\ raised' = "SessionNotFound"
            /\ UNCHANGED inflight
       ELSE /\ raised' = "ok"
            /\ inflight' =
                 [call |-> [inflight.call EXCEPT ![w] =
                              Some([session_id |-> session_id, completed |-> completed,
                                    row |-> ValueOf(s)])],
                  base |-> [inflight.base EXCEPT ![session_id] =
                              IF Quiescent(session_id) THEN ValueOf(s).failed_count ELSE @],
                  batch |-> [inflight.batch EXCEPT ![session_id] =
                              IF Quiescent(session_id) THEN <<completed>>
                              ELSE Append(@, completed)]]
    /\ handled' = NoHandler
    /\ UNCHANGED <<now, sessions, audit_logs, hist, purged>>
    /\ UNCHANGED unitVars
    /\ UNCHANGED orchVars

\* record_result, second half: update_session with the counter computed from
\* the row that was read, then the audit entry.
EndRecordResult(w) ==
    /\ inflight.call[w] # None
    /\ LET c == ValueOf(inflight.call[w]) IN
       /\ sessions' = update_session(sessions, c.session_id, None,
                                     Some(NextFailedCount(c.row, c.completed)), None)
       /\ audit_logs' = save_audit_log(audit_logs, c.session_id, c.row.user_id,
                                       IF c.completed THEN "challenge_completed"
                                                      ELSE "challenge_failed",
                                       now, NoDetails)
       /\ hist' = [hist EXCEPT ![c.session_id] = Append(@, c.completed)]
       /\ handled' = [op |-> "record_result", sid |-> c.session_id,
                      arg |-> c.row.status, score |-> 0]
    /\ inflight' = [inflight EXCEPT !.call[w] = None]
    /\ raised' = "ok"
    /\ UNCHANGED <<now, purged>>
    /\ UNCHANGED unitVars
    /\ UNCHANGED orchVars

------------------------------------------------------------------------------
(* The challenge engine (challenge_engine.py).  A Python str is modelled as  *)
(* the tuple of its characters, so that formatting, slicing and searching    *)
(* are computed as Python computes them.                                     *)

coreVars == <<now, sessions, audit_logs, hist, raised, nonces, results, tokens,
              chan, out, progress, handled, inflight, purged>>

\* s[i:] for 0 <= i
Slice(s, i) == SubSeq(s, i + 1, Len(s))

\* s.find(sub): the lowest 0-based index where sub occurs in s, or -1
find(s, sub) ==
    LET hits == {i \in 0..(Len(s) - Len(sub)) : SubSeq(s, i + 1, i + Len(sub)) = sub}
    IN IF hits = {} THEN -1 ELSE CHOOSE i \in hits : \A j \in hits : i <= j

\* s.split('_')[-1]: what follows the last underscore, or all of s
split_last(s) ==
    LET us == {i \in 1..Len(s) : s[i] = "_"}
    IN IF us = {} THEN s ELSE Slice(s, CHOOSE i \in us : \A j \in us : j <= i)

DecimalDigits == <<"0", "1", "2", "3", "4", "5", "6", "7", "8", "9">>

\* str(i) of a non-negative int, as the f-string renders the ordinal
RECURSIVE str(_)
str(i) == IF i < 10 THEN <<DecimalDigits[i + 1]>>
          ELSE str(i \div 10) \o <<DecimalDigits[(i % 10) + 1]>>

HexDigits == <<"0", "1", "2", "3", "4", "5", "6", "7", "8", "9",
               "a", "b", "c", "d", "e", "f">>

\* secrets.token_hex renders each random byte as two lowercase hex digits
RECURSIVE hexlify(_)
hexlify(bytes) ==
    IF bytes = <<>> THEN <<>>
    ELSE <<HexDigits[(bytes[1] \div 16) + 1], HexDigits[(bytes[1] % 16) + 1]>>
         \o hexlify(Tail(bytes))

NonceBytes == 16

\* The byte strings the random source is taken to return: all bytes equal.
RandomBytes == {[i \in 1..NonceBytes |-> b] : b \in {0, 171}}

generate_nonce(bytes) == hexlify(bytes)

GESTURE == "gesture"
EXPRESSION == "expression"

GESTURE_POOL ==
    { <<"n", "o", "d", "_", "u", "p">>,
      <<"n", "o", "d", "_", "d", "o", "w", "n">>,
      <<"t", "u", "r", "n", "_", "l", "e", "f", "t">>,
      <<"t", "u", "r", "n", "_", "r", "i", "g", "h", "t">>,
      <<"t", "i", "l", "t", "_", "l", "e", "f", "t">>,
      <<"t", "i", "l", "t", "_", "r", "i", "g", "h", "t">>,
      <<"o", "p", "e", "n", "_", "m", "o", "u", "t", "h">>,
      <<"c", "l", "o", "s", "e", "_", "e", "y", "e", "s">>,
      <<"r", "a", "i", "s", "e", "_", "e", "y", "e", "b", "r", "o", "w", "s">>,
      <<"b", "l", "i", "n", "k">> }

EXPRESSION_POOL ==
    { <<"s", "m", "i", "l", "e">>,
      <<"f", "r", "o", "w", "n">>,
      <<"s", "u", "r", "p", "r", "i", "s", "e", "d">>,
      <<"n", "e", "u", "t", "r", "a", "l">>,
      <<"a", "n", "g", "r", "y">> }

GESTURE_INSTRUCTIONS(action) ==
    IF action = <<"n", "o", "d", "_", "u", "p">> THEN "Nod your head up"
    ELSE IF action = <<"n", "o", "d", "_", "d", "o", "w", "n">> THEN "Nod your head down"
    ELSE IF action = <<"t", "u", "r", "n", "_", "l", "e", "f", "t">> THEN "Turn your head to the left"
    ELSE IF action = <<"t", "u", "r", "n", "_", "r", "i", "g", "h", "t">> THEN "Turn your head to the right"
    ELSE IF action = <<"t", "i", "l", "t", "_", "l", "e", "f", "t">> THEN "Tilt your head to the left"
    ELSE IF action = <<"t", "i", "l", "t", "_", "r", "i", "g", "h", "t">> THEN "Tilt your head to the right"
    ELSE IF action = <<"o", "p", "e", "n", "_", "m", "o", "u", "t", "h">> THEN "Open your mouth wide"
    ELSE IF action = <<"c", "l", "o", "s", "e", "_", "e", "y", "e", "s">> THEN "Close your eyes"
    ELSE IF action = <<"r", "a", "i", "s", "e", "_", "e", "y", "e", "b", "r", "o", "w", "s">> THEN "Raise your eyebrows"
    ELSE IF action = <<"b", "l", "i", "n", "k">> THEN "Blink your eyes"
    ELSE ""

EXPRESSION_INSTRUCTIONS(action) ==
    IF action = <<"s", "m", "i", "l", "e">> THEN "Smile"
    ELSE IF action = <<"f", "r", "o", "w", "n">> THEN "Frown"
    ELSE IF action = <<"s", "u", "r", "p", "r", "i", "s", "e", "d">> THEN "Look surprised"
    ELSE IF action = <<"n", "e", "u", "t", "r", "a", "l">> THEN "Keep a neutral expression"
    ELSE IF action = <<"a", "n", "g", "r", "y">> THEN "Look angry"
    ELSE ""

\* The literal text of the two f-strings between session_id and the ordinal
TypeMarker(type) ==
    IF type = GESTURE THEN <<"_", "g", "e", "s", "t", "u", "r", "e", "_">>
    ELSE <<"_", "e", "x", "p", "r", "e", "s", "s", "i", "o", "n", "_">>

\* What secrets.choice can return for one slot: a type, then an action of its pool
Picks == {[type |-> GESTURE, action |-> a] : a \in GESTURE_POOL}
         \cup {[type |-> EXPRESSION, action |-> a] : a \in EXPRESSION_POOL}

CHALLENGE_TIMEOUT_SECONDS == 10

\* The literal timeout_seconds of generate_challenge_sequence
GeneratedTimeoutSeconds == 8

challenge_id_noordinal(session_id, i, pick) ==
    session_id \o TypeMarker(pick.type) \o pick.action

challenge_id(session_id, i, pick) ==
    session_id \o TypeMarker(pick.type) \o str(i) \o <<"_">> \o pick.action

Challenge(session_id, i, pick) ==
    [challenge_id |-> challenge_id(session_id, i, pick),
     type |-> pick.type,
     instruction |-> IF pick.type = GESTURE THEN GESTURE_INSTRUCTIONS(pick.action)
                     ELSE EXPRESSION_INSTRUCTIONS(pick.action),
     timeout_seconds |-> GeneratedTimeoutSeconds]

\* picks[i] is what the random source chose for slot i - 1; Len(picks) is
\* num_challenges.
generate_challenge_sequence(session_id, picks, bytes, t) ==
    [session_id |-> session_id,
     nonce |-> generate_nonce(bytes),
     timestamp |-> t,
     challenges |-> [i \in 1..Len(picks) |-> Challenge(session_id, i - 1, picks[i])]]

\* The fallback of verify_challenge: the action (and the marker that matched)
\* read back from a challenge_id.
decode_challenge_id(cid) ==
    LET g == find(cid, TypeMarker(GESTURE))
        e == find(cid, TypeMarker(EXPRESSION))
        marker == IF g # -1 THEN TypeMarker(GESTURE)
                  ELSE IF e # -1 THEN TypeMarker(EXPRESSION) ELSE <<>>
        idx == IF g # -1 THEN g ELSE e
        after_marker == Slice(cid, idx + Len(marker))
        underscore == find(after_marker, <<"_">>)
        challenge_action ==
            IF marker = <<>> THEN <<>>
            ELSE IF underscore # -1 THEN Slice(after_marker, underscore + 1)
            ELSE after_marker
    IN [marker |-> marker,
        action |-> IF challenge_action = <<>> THEN split_last(cid)
                   ELSE challenge_action]

\* Convex's purge_expired_nonces when the mutation raises: nothing is deleted,
\* the count returned is 0.
purge_expired_nonces_failed(tbl, t) == tbl

\* A mutant: the failing run terminates every ACTIVE session.
sweep_failed_tbl_fatal(tbl, done, t) ==
    sweep_tbl(tbl, {sid \in DOMAIN tbl : tbl[sid].status = ACTIVE}, t)

\* The sessions table after a run of the sweep that raised once it had
\* terminated the sessions in done.
sweep_failed_tbl(tbl, done, t) == sweep_tbl(tbl, done, t)

\* One run of the background sweep that fails: timeout detection raises after
\* the sessions in done (or completes, done being all its targets), the nonce
\* purge fails; the error is logged and the loop goes on to its next interval.
SweepFails(done) ==
    /\ done \subseteq SweepTargets(sessions, now)
    /\ sessions' = sweep_failed_tbl(sessions, done, now)
    /\ audit_logs' = sweep_log(sessions, audit_logs, done, now)
    /\ nonces' = purge_expired_nonces_failed(nonces, now)
    /\ raised' = "ok"
    /\ handled' = [op |-> "sweep_failed", sid |-> "", arg |-> "",
                   score |-> Cardinality(DOMAIN nonces \ DOMAIN nonces')]
    /\ UNCHANGED <<now, hist, results, tokens, chan, out, progress, inflight, purged>>
    /\ UNCHANGED unitVars

------------------------------------------------------------------------------
(* The token issuer (token_issuer.py): jwt.encode and jwt.decode as what they *)
(* do to the claims, the signature as the key and the bytes it was made over. *)

\* The token clock stops advancing at MaxTokenNow.
MaxTokenNow == 901

ISSUER == "proof-of-life-auth"
ALGORITHM == "RS256"

\* The key pairs of two TokenIssuer instances (_generate_key_pair).
KeyPairs == {"k1", "k2"}
TokenUsers == {"user1", "user2"}
TokenScores == {0, 85}

\* The claims as the JSON object jwt.encode serialises: name/value members.
json_dumps(payload) ==
    << <<"sub", payload.sub>>, <<"session_id", payload.session_id>>,
       <<"final_score", payload.final_score>>, <<"iat", payload.iat>>,
       <<"exp", payload.exp>>, <<"iss", payload.iss>> >>

\* payload.get(name) on the decoded object
payload_get(obj, name) ==
    LET hits == {i \in 1..Len(obj) : obj[i][1] = name}
    IN IF hits = {} THEN None ELSE Some(obj[CHOOSE i \in hits : TRUE][2])

\* One segment of the compact serialisation, as base64url text: the bytes it
\* carries, the value of the bits of its last character that belong to no
\* byte (the encoder writes 0), and whether the text still decodes: "ok",
\* "bad_base64" (not decodable), "bad_json" (decodable, but not the JSON of an
\* object).
base64url_encode(data) == [data |-> data, tail |-> 0, text |-> "ok"]

\* base64.urlsafe_b64decode after re-padding: the bytes, whatever the value of
\* the bits that belong to no byte; None for binascii.Error.
base64url_decode(segment) ==
    IF segment.text = "bad_base64" THEN None ELSE Some(segment.data)

\* The RS256 signature of a key pair over the signing input (the text of the
\* header and claims segments), and its verification with the public key.
rsa_sign(private_key, signing_input) == [key |-> private_key, over |-> signing_input]

rsa_verify(signing_input, public_key, signature) ==
    signature = [key |-> public_key, over |-> signing_input]

\* jwt.encode(payload, private_key, algorithm): three segments joined by dots.
jwt_encode(payload, private_key, algorithm) ==
    LET header == base64url_encode([alg |-> algorithm, typ |-> "JWT"])
        claims == base64url_encode(json_dumps(payload))
    IN [segments |-> 3, header |-> header, claims |-> claims,
        signature |-> base64url_encode(rsa_sign(private_key, <<header, claims>>))]

\* jwt.decode(token, public_key, algorithms, issuer) at time t: the name of
\* what it raises, "" when it returns the claims.  The segments are split and
\* decoded, the algorithm and the signature are checked, then the claims:
\* iat and exp are read with int() and compared with the float time.
jwt_decode(token, public_key, algorithms, issuer, t) ==
    IF token.segments # 3 THEN "DecodeError"
    ELSE IF token.header.text # "ok" THEN "DecodeError"
    ELSE IF base64url_decode(token.claims) = None THEN "DecodeError"
    ELSE IF base64url_decode(token.signature) = None THEN "DecodeError"
    ELSE IF token.header.data.alg \notin algorithms THEN "InvalidAlgorithmError"
    ELSE IF ~rsa_verify(<<token.header, token.claims>>, public_key,
                        token.signature.data) THEN "InvalidSignatureError"
    ELSE IF token.claims.text # "ok" THEN "DecodeError"
    ELSE IF /\ payload_get(token.claims.data, "iat") # None
            /\ int(ValueOf(payload_get(token.claims.data, "iat"))) > t
        THEN "ImmatureSignatureError"
    ELSE IF /\ payload_get(token.claims.data, "exp") # None
            /\ int(ValueOf(payload_get(token.claims.data, "exp"))) <= t
        THEN "ExpiredSignatureError"
    ELSE IF payload_get(token.claims.data, "iss") # Some(issuer)
        THEN "InvalidIssuerError"
    ELSE ""

\* A mutant: only the base class itself is caught.
InvalidTokenError_exact == {"InvalidTokenError"}

\* except jwt.InvalidTokenError: the class and its subclasses
InvalidTokenError ==
    {"InvalidTokenError", "DecodeError", "InvalidSignatureError",
     "ExpiredSignatureError", "ImmatureSignatureError", "InvalidAlgorithmError",
     "InvalidIssuerError"}

NoValidation_leaky(error) ==
    [valid |-> FALSE, user_id |-> Some("user1"), session_id |-> None,
     issued_at |-> None, expires_at |-> None, error |-> Some(error)]

\* TokenValidation(valid=False, ..., error=error): no decoded claim
NoValidation(error) ==
    [valid |-> FALSE, user_id |-> None, session_id |-> None,
     issued_at |-> None, expires_at |-> None, error |-> Some(error)]

\* The three kinds of error text validate_token returns
EXPIRED == {"Token has expired"}
BAD_SIGNATURE == {"Invalid token signature"}
MALFORMED == {"Invalid token: " \o e : e \in InvalidTokenError}

validate_token_swapped(token, public_key, t) ==
    LET e == jwt_decode(token, public_key, {ALGORITHM}, ISSUER, t) IN
    IF e # "" THEN Some(NoValidation(e))
    ELSE Some([valid |-> TRUE,
               user_id |-> payload_get(token.claims.data, "session_id"),
               session_id |-> payload_get(token.claims.data, "sub"),
               issued_at |-> payload_get(token.claims.data, "iat"),
               expires_at |-> payload_get(token.claims.data, "exp"),
               error |-> None])

\* TokenIssuer.validate_token(token) of the issuer holding public_key, at time
\* t: the TokenValidation it returns, or None when what jwt.decode raised is
\* caught by none of the three except clauses and leaves the method.
validate_token(token, public_key, t) ==
    LET e == jwt_decode(token, public_key, {ALGORITHM}, ISSUER, t) IN
    IF e = ""
        THEN Some([valid |-> TRUE,
                   user_id |-> payload_get(token.claims.data, "sub"),
                   session_id |-> payload_get(token.claims.data, "session_id"),
                   issued_at |-> payload_get(token.claims.data, "iat"),
                   expires_at |-> payload_get(token.claims.data, "exp"),
                   error |-> None])
    ELSE IF e = "ExpiredSignatureError" THEN Some(NoValidation("Token has expired"))
    ELSE IF e = "InvalidSignatureError" THEN Some(NoValidation("Invalid token signature"))
    ELSE IF e \in InvalidTokenError THEN Some(NoValidation("Invalid token: " \o e))
    ELSE None

\* A token is presented: jwt_token keeps its text, the text it was made from,
\* and where it comes from (issued, crafted, tampered); the validation of the token presented
\* before is dropped.
Present(token, original, origin) ==
    /\ jwt_token' = Some([token |-> token, original |-> original, origin |-> origin])
    /\ validation' = None
    /\ UNCHANGED <<sequence, decoded, sent, events, scored>>
    /\ UNCHANGED coreVars

\* issuer.issue_jwt_token(user_id, session_id, final_score) of the issuer
\* holding key
IssueToken(key, user_id, session_id, final_score, f) ==
    LET token == jwt_encode(issue_jwt_token(user_id, session_id, final_score,
                                            time_time(now, f)),
                            key, ALGORITHM)
    IN Present(token, token, "issued")

\* The tokens a caller makes by hand, as the tests do: signed by a key of the
\* service but long expired, of another issuer or of another algorithm; text
\* with too few or too many segments, or whose header is not a header.
CraftedTokens(t) ==
    LET payload == issue_jwt_token("user1", "s1", 85, t)
        token(k) == jwt_encode(payload, k, ALGORITHM)
    IN UNION {
         {jwt_encode([payload EXCEPT !.iat = t - 1900 * TicksPerSecond,
                                     !.exp = t - 1000 * TicksPerSecond], k, ALGORITHM),
          jwt_encode([payload EXCEPT !.iss = "someone-else"], k, ALGORITHM),
          jwt_encode(payload, k, "HS256")} : k \in KeyPairs }
       \cup {[token("k1") EXCEPT !.segments = n] : n \in {1, 2, 4}}
       \cup {[token("k1") EXCEPT !.header.text = "bad_base64"],
             [token("k1") EXCEPT !.header.text = "bad_json"]}

PresentToken(token) ==
    /\ token \in CraftedTokens(time_time(now, 0))
    /\ Present(token, token, "crafted")

\* The texts that differ from token in one byte: a dot, or a character of one
\* segment, which changes the bytes the segment carries, or only the bits of
\* its last character that belong to no byte (the 27 bytes of the header
\* leave none), or makes it undecodable.
Tampers(token) ==
    {[token EXCEPT !.segments = 2],
     [token EXCEPT !.header.text = "bad_base64"],
     [token EXCEPT !.header.text = "bad_json"],
     [token EXCEPT !.header.data.alg = "RS356"],
     [token EXCEPT !.claims.text = "bad_base64"],
     [token EXCEPT !.claims.text = "bad_json"],
     [token EXCEPT !.claims.data[1][2] = "userX"],
     [token EXCEPT !.claims.data[5][2] = @ + 1000 * TicksPerSecond],
     [token EXCEPT !.claims.tail = 1],
     [token EXCEPT !.signature.text = "bad_base64"],
     [token EXCEPT !.signature.data.key = "forged"],
     [token EXCEPT !.signature.tail = 1]}

\* One byte of the token issued last is changed.
TamperToken ==
    /\ jwt_token # None
    /\ ValueOf(jwt_token).origin = "issued"
    /\ \E token \in Tampers(ValueOf(jwt_token).token) :
          Present(token, ValueOf(jwt_token).token, "tampered")

\* issuer.validate_token(the token presented last) of the issuer holding key;
\* validation keeps who validated what and when, next to the result.
ValidateToken(key, f) ==
    /\ jwt_token # None
    /\ validation' = Some([by |-> key, at |-> time_time(now, f),
                           token |-> ValueOf(jwt_token).token,
                           original |-> ValueOf(jwt_token).original,
                           origin |-> ValueOf(jwt_token).origin,
                           result |-> validate_token(ValueOf(jwt_token).token, key,
                                                     time_time(now, f))])
    /\ UNCHANGED <<sequence, decoded, sent, events, jwt_token, scored>>
    /\ UNCHANGED coreVars

\* The clock steps that bring a token to just under, at and just over its expiry.
ExpirySteps == {899, 900, 901}

TickExpiry(d) ==
    /\ now + d <= MaxTokenNow
    /\ now' = now + d
    /\ handled' = NoHandler
    /\ UNCHANGED <<sessions, audit_logs, hist, raised, nonces, results, tokens,
                   chan, out, progress, inflight, purged>>
    /\ UNCHANGED unitVars

\* At most MaxChallenges challenges are asked of one generate call.
MaxChallenges == 3
\* At most MaxIssued challenges of a sequence are sent to the client.
MaxIssued == 1
\* At most MaxSent feedback events are handed to one handler.
MaxSent == 2

\* The session ids handed to the engine: a short id, a UUID-like one, one with
\* an underscore, one that contains the text of a type marker.
EngineSessionIds == { <<"s", "1">>, <<"a", "-", "1">>, <<"a", "_", "b">>, <<"x", "_", "g", "e", "s", "t", "u", "r", "e", "_", "1">> }

\* generate_challenge_sequence(session_id, num_challenges), once per behaviour;
\* the random source picks the nonce bytes and, per slot, a type and an action.
GenerateSequence(session_id, num_challenges) ==
    /\ sequence = None
    /\ \E picks \in [1..num_challenges -> Picks], bytes \in RandomBytes :
           sequence' = Some([num_challenges |-> num_challenges,
                             returned |-> generate_challenge_sequence(
                                              session_id, picks, bytes, now)])
    /\ UNCHANGED <<decoded, sent, events, jwt_token, validation, scored>>
    /\ UNCHANGED coreVars

\* verify_challenge falls back to the challenge_id of challenge i.
DecodeChallengeId(i) ==
    /\ sequence # None
    /\ i \in 1..Len(ValueOf(sequence).returned.challenges)
    /\ decoded' = Some([challenge |-> i,
                        read |-> decode_challenge_id(
                                     ValueOf(sequence).returned.challenges[i].challenge_id)])
    /\ UNCHANGED <<sequence, sent, events, jwt_token, validation, scored>>
    /\ UNCHANGED coreVars

FeedbackTypes == {"challenge_issued", "challenge_completed", "challenge_failed",
                  "score_update", "verification_success", "verification_failed",
                  "error"}

NoData == [challenge_id |-> <<>>, instruction |-> "", timeout_seconds |-> 0, type |-> ""]

send_feedback_dropped(socket, feedback) == socket

\* websocket.send_json(feedback_dict): one message on the socket
send_feedback(socket, feedback) ==
    Append(socket, [type |-> feedback.type, message |-> feedback.message,
                    data |-> feedback.data])

send_challenge(socket, challenge) ==
    send_feedback(socket,
        [type |-> "challenge_issued",
         message |-> "Challenge: " \o challenge.instruction,
         data |-> [challenge_id |-> challenge.challenge_id,
                   instruction |-> challenge.instruction,
                   timeout_seconds |-> challenge.timeout_seconds,
                   type |-> challenge.type]])

\* send_challenge(websocket, challenge i of the generated sequence)
SendChallenge(i) ==
    /\ sequence # None
    /\ i \in 1..Len(ValueOf(sequence).returned.challenges)
    /\ Len(sent) < MaxIssued
    /\ sent' = send_challenge(sent, ValueOf(sequence).returned.challenges[i])
    /\ events' = Append(events, "challenge_issued")
    /\ UNCHANGED <<sequence, decoded, jwt_token, validation, scored>>
    /\ UNCHANGED coreVars

\* send_feedback(websocket, feedback) for a significant event of the given type
SendFeedback(type, message) ==
    /\ Len(events) < MaxSent
    /\ sent' = send_feedback(sent, [type |-> type, message |-> message, data |-> NoData])
    /\ events' = Append(events, type)
    /\ UNCHANGED <<sequence, decoded, jwt_token, validation, scored>>
    /\ UNCHANGED coreVars

\* The component scores handed to the scoring engine, in hundredths: the ends
\* of [0, 1] and the values of the boundary tests (0.6, 0.8, 0.7 gives 0.69;
\* 0.7, 0.7, 0.7 gives 0.70).
BoundaryScores == {0, 60, 70, 80, 100}

\* engine.compute_final_score(liveness, deepfake, emotion)
ComputeFinalScore(liveness, deepfake, emotion) ==
    /\ scored' = Some([liveness |-> liveness, deepfake |-> deepfake,
                               emotion |-> emotion,
                               returned |-> compute_final_score(liveness, deepfake, emotion)])
    /\ UNCHANGED <<sequence, decoded, sent, events, jwt_token, validation>>
    /\ UNCHANGED coreVars

Init ==
    /\ now = 0
    /\ sessions = <<>>
    /\ audit_logs = {}
    /\ hist = [sid \in AllIds |-> <<>>]
    /\ raised = "ok"
    /\ nonces = <<>>
    /\ results = {}
    /\ tokens = {}
    /\ chan = [sid \in AllIds |-> "none"]
    /\ out = [sid \in AllIds |-> <<>>]
    /\ progress = [sid \in AllIds |-> [binds |-> 0, done |-> 0, ok |-> 0]]
    /\ handled = NoHandler
    /\ purged = {}
    /\ sequence = None
    /\ decoded = None
    /\ sent = <<>>
    /\ events = <<>>
    /\ jwt_token = None
    /\ validation = None
    /\ scored = None
    /\ inflight = [call |-> [w \in Workers |-> None],
                   base |-> [sid \in SessionIds |-> 0],
                   batch |-> [sid \in SessionIds |-> <<>>]]

Next ==
    \/ \E u \in Users : Create(u)
    \/ \E sid \in AllIds, c \in BOOLEAN : RecordResult(sid, c)
    \/ \E sid \in AllIds, r \in Reasons : Terminate(sid, r)
    \/ Sweep
    \/ \E d \in TickSteps : Tick(d)

Spec == Init /\ [][Next]_vars

\* The orchestrator: sessions are created, clients connect and send results, the
\* sweep runs, time passes.
NextOrch ==
    \/ \E u \in Users : Create(u)
    \/ \E sid \in AllIds : Connect(sid)
    \/ \E sid \in AllIds, c \in BOOLEAN : ProcessChallenge(sid, c)
    \/ Sweep
    \/ \E d \in TickSteps : Tick(d)

SpecOrch == Init /\ [][NextOrch]_vars

\* The orchestrator with a sweep that keeps running on its interval and a
\* clock that keeps advancing: a sweep that has a session to time out is
\* not put off forever, nor is the passing of time.
SpecLive ==
    /\ Init
    /\ [][NextOrch]_vars
    /\ WF_vars(Sweep)
    /\ WF_vars(\E d \in TickSteps : Tick(d))

\* Concurrent delivery: sessions are created, results are delivered by two
\* workers whose reads and writes interleave.
NextConc ==
    \/ \E u \in Users : Create(u)
    \/ \E w \in Workers, sid \in AllIds, c \in BOOLEAN : BeginRecordResult(w, sid, c)
    \/ \E w \in Workers : EndRecordResult(w)

SpecConc == Init /\ [][NextConc]_vars

\* The policy queries: sessions are created, results recorded, the clock moves
\* around the duration cap, the two queries are asked.
NextPolicy ==
    \/ \E u \in Users : Create(u)
    \/ \E sid \in AllIds, c \in BOOLEAN : RecordResult(sid, c)
    \/ \E d \in BoundarySteps : TickBoundary(d)
    \/ \E sid \in AllIds : CheckTimeout(sid)
    \/ \E sid \in AllIds : CheckFailureLimit(sid)

SpecPolicy == Init /\ [][NextPolicy]_vars

\* The nonce store: nonces are stored, the purge runs, time passes.
NextNonce ==
    \/ \E n \in Nonces, sid \in SessionIds, e \in ExpiryTimes : StoreNonce(n, sid, e)
    \/ PurgeNonces
    \/ \E d \in TickSteps : Tick(d)

SpecNonce == Init /\ [][NextNonce]_vars

\* The nonce store asked: nonces are stored and purged, and either service is
\* asked whether a nonce is used, the Convex store reachable or not.
NextStore ==
    \/ \E n \in Nonces, sid \in SessionIds, e \in ExpiryTimes : StoreNonce(n, sid, e)
    \/ PurgeNonces
    \/ \E n \in Nonces : CheckNonceUsed(n)
    \/ \E n \in Nonces, fails \in BOOLEAN : CheckNonceUsedConvex(n, fails)
    \/ \E d \in TickSteps : Tick(d)

SpecStore == Init /\ [][NextStore]_vars

\* The challenge engine: one sequence is generated, its challenge ids are read
\* back, its challenges are sent to the client.
NextEngine ==
    \/ \E sid \in EngineSessionIds, n \in 0..MaxChallenges : GenerateSequence(sid, n)
    \/ \E i \in 1..MaxChallenges : DecodeChallengeId(i)
    \/ \E i \in 1..MaxChallenges : SendChallenge(i)

SpecEngine == Init /\ [][NextEngine]_vars

\* The WebSocket handler: feedback events are handed to it one after another.
NextHandler ==
    \E type \in FeedbackTypes, m \in {"m1", "m2"} : SendFeedback(type, m)

SpecHandler == Init /\ [][NextHandler]_vars

\* The token issuer: tokens are issued by two issuers, made by hand or changed
\* in one byte, and validated; time passes up to and beyond the expiry.
NextToken ==
    \/ \E k \in KeyPairs, u \in TokenUsers, sid \in SessionIds, sc \in TokenScores,
          f \in Fractions :
          IssueToken(k, u, sid, sc, f)
    \/ \E token \in CraftedTokens(time_time(now, 0)) : PresentToken(token)
    \/ TamperToken
    \/ \E k \in KeyPairs, f \in Fractions : ValidateToken(k, f)
    \/ \E d \in ExpirySteps : TickExpiry(d)

SpecToken == Init /\ [][NextToken]_vars

\* The scoring engine: final scores are computed for component scores.
NextScoring ==
    \E l \in BoundaryScores, d \in BoundaryScores, e \in BoundaryScores :
        ComputeFinalScore(l, d, e)

SpecScoring == Init /\ [][NextScoring]_vars

\* The expiries of the nonces stored next to the sweep: one that has expired
\* once the clock has moved, one that has not.
SweepExpiryTimes == {0, 122}

\* The sweep next to the verifications: sessions are created, clients connect
\* and send results, nonces are stored, the sweep runs or fails, time passes.
NextSweep ==
    \/ \E u \in Users : Create(u)
    \/ \E sid \in AllIds : Connect(sid)
    \/ \E sid \in AllIds, c \in BOOLEAN : ProcessChallenge(sid, c)
    \/ \E n \in Nonces, sid \in SessionIds, e \in SweepExpiryTimes : StoreNonce(n, sid, e)
    \/ Sweep
    \/ \E done \in SUBSET SessionIds : SweepFails(done)
    \/ \E d \in TickSteps : Tick(d)

SpecSweep == Init /\ [][NextSweep]_vars

------------------------------------------------------------------------------
(* Properties of the session state machine *)

RECURSIVE TrailingFailures(_)
\* The number of failed results at the end of a history, back to the last success.
TrailingFailures(h) ==
    IF h = <<>> THEN 0
    ELSE IF h[Len(h)] THEN 0
    ELSE 1 + TrailingFailures(SubSeq(h, 1, Len(h) - 1))

IsPrefix(a, b) == Len(a) <= Len(b) /\ a = SubSeq(b, 1, Len(a))

\* C1: once a session's status is COMPLETED, FAILED or TIMEOUT, no step changes
\* it (record_result, terminate with any reason, the sweep).
C1_TerminalStatusNeverChanges ==
    [][\A sid \in DOMAIN sessions :
          sessions[sid].status \in TerminalStatuses
              => sessions'[sid].status = sessions[sid].status]_vars

\* C2: after any sequence of results, a session's consecutive_failure_count is
\* the number of failed results since its last success: a success set it to 0,
\* a failure added exactly 1.
C2_CounterIsFailuresSinceLastSuccess ==
    \A sid \in DOMAIN sessions :
        sessions[sid].failed_count = TrailingFailures(hist[sid])

C2_Witness ==
    \E sid \in DOMAIN sessions :
        /\ hist[sid] = <<FALSE, FALSE, TRUE, FALSE>>
        /\ sessions[sid].failed_count = 1

\* C3: is_over_failure_limit is true exactly when the session has 3 or more
\* consecutive failures; along [fail, fail, success, fail, fail] it is false at
\* every prefix, and after [fail, fail, fail] it is true.
C3_OverLimitIffThreeConsecutiveFailures ==
    \A sid \in DOMAIN sessions :
        /\ is_over_failure_limit(sessions, sid) <=> (TrailingFailures(hist[sid]) >= 3)
        /\ IsPrefix(hist[sid], <<FALSE, FALSE, TRUE, FALSE, FALSE>>)
              => ~is_over_failure_limit(sessions, sid)
        /\ hist[sid] = <<FALSE, FALSE, FALSE>>
              => is_over_failure_limit(sessions, sid)

C3_Witness ==
    \E sid \in DOMAIN sessions :
        /\ hist[sid] = <<FALSE, FALSE, TRUE, FALSE, FALSE>>
        /\ ~is_over_failure_limit(sessions, sid)

\* C4: a record_result call leaves every session's status as it was, also when
\* the session is already terminal.
C4_RecordResultKeepsStatus ==
    [][handled'.op = "record_result" /\ hist' # hist =>
          /\ DOMAIN sessions' = DOMAIN sessions
          /\ \A sid \in DOMAIN sessions :
                sessions'[sid].status = sessions[sid].status]_vars

\* A result has just been recorded for a session that was terminal at the call,
\* and the session still has the status it had then.
C4_Witness ==
    /\ handled.op = "record_result"
    /\ handled.arg \in TerminalStatuses
    /\ hist[handled.sid] # <<>>
    /\ sessions[handled.sid].status = handled.arg

\* C15: terminate(session, reason) on an ACTIVE session sets the status by the
\* mapping timeout -> TIMEOUT, max_failures -> FAILED, completed -> COMPLETED,
\* security_violation -> FAILED, sets end_time to the current time and logs
\* "session_terminated" with the reason and the duration.
C15_TerminateActiveSession ==
    [][(/\ handled'.op = "terminate"
        /\ handled'.sid \in DOMAIN sessions
        /\ sessions[handled'.sid].status = ACTIVE)
       => LET sid == handled'.sid
              reason == handled'.arg
          IN  /\ reason = "timeout" => sessions'[sid].status = "timeout"
              /\ reason = "max_failures" => sessions'[sid].status = "failed"
              /\ reason = "completed" => sessions'[sid].status = "completed"
              /\ reason = "security_violation" => sessions'[sid].status = "failed"
              /\ sessions'[sid].end_time = Some(now)
              /\ [session_id |-> sid, user_id |-> sessions[sid].user_id,
                  event_type |-> "session_terminated",
                  details |-> [reason |-> reason,
                               duration |-> now - sessions[sid].start_time]]
                   \in audit_logs' \ audit_logs]_vars

\* terminate has just ended a session 121 seconds old for a security violation;
\* it is the session's only termination, so the session was ACTIVE at the call.
C15_Witness ==
    /\ handled.op = "terminate"
    /\ handled.arg = "security_violation"
    /\ handled.sid \in DOMAIN sessions
    /\ sessions[handled.sid].status = FAILED
    /\ sessions[handled.sid].end_time = Some(121)
    /\ Cardinality(TerminationsOf(audit_logs, handled.sid)) = 1
    /\ \E e \in TerminationsOf(audit_logs, handled.sid) :
          e.details = [reason |-> "security_violation", duration |-> 121]

\* C16: terminate on an unknown session id raises nothing, creates no session,
\* changes no session and writes no termination entry.
C16_TerminateUnknownIsNoOp ==
    [][(handled'.op = "terminate" /\ handled'.sid \notin DOMAIN sessions)
       => /\ raised' = "ok"
          /\ sessions' = sessions
          /\ audit_logs' = audit_logs]_vars

C16_Witness ==
    /\ handled.op = "terminate"
    /\ handled.sid \notin DOMAIN sessions
    /\ raised = "ok"
    /\ \E sid \in DOMAIN sessions : sessions[sid].status = ACTIVE
    /\ Terminations(audit_logs) = {}

\* C17: record_result on an unknown session id fails with SessionNotFound and
\* leaves the store as it was: no session created, no counter changed, nothing
\* logged.
C17_RecordResultUnknownRaises ==
    [][(handled'.op = "record_result" /\ handled'.sid \notin DOMAIN sessions)
       => /\ raised' = "SessionNotFound"
          /\ sessions' = sessions
          /\ audit_logs' = audit_logs
          /\ hist' = hist]_vars

C17_Witness ==
    /\ handled.op = "record_result"
    /\ handled.sid \notin DOMAIN sessions
    /\ raised = "SessionNotFound"
    /\ \E sid \in DOMAIN sessions : sessions[sid].failed_count = 2

------------------------------------------------------------------------------
(* Properties of the orchestrator *)

Last(msgs) == msgs[Len(msgs)]

Successes(h) == Cardinality({i \in 1..Len(h) : h[i]})

\* C5: whenever the nonce presented with a challenge sequence is already in the
\* nonce store, the request is rejected as a replay (an "error", the channel
\* closed, nothing stored or retried) and the owning session is terminated with
\* reason "security_violation": status FAILED, end_time set, termination logged
\* with that reason.
C5_ReplayTerminatesSession ==
    [][(/\ handled'.op \in {"connect", "issue"}
        /\ handled'.arg \in DOMAIN nonces)
       => LET sid == handled'.sid IN
          /\ sessions'[sid].status = FAILED
          /\ sessions'[sid].end_time = Some(now)
          /\ \E e \in TerminationsOf(audit_logs', sid) :
                e.details.reason = "security_violation"
          /\ chan'[sid] = "closed"
          /\ Last(out'[sid]) = "error"
          /\ nonces' = nonces]_vars

C5_Witness ==
    /\ handled.op \in {"connect", "issue"}
    /\ handled.arg \in DOMAIN nonces
    /\ sessions[handled.sid].status = FAILED
    /\ Last(out[handled.sid]) = "error"
    /\ \E e \in TerminationsOf(audit_logs, handled.sid) :
          e.details.reason = "security_violation"

\* C6: a session has a credential, or was sent "verification_success", only if
\* a passing scoring result is stored for it and at least 3 of its challenges
\* were completed successfully.
C6_TokenOnlyAfterPassAndThreeSuccesses ==
    \A sid \in AllIds :
        \/ (\E tok \in tokens : tok.session_id = sid)
        \/ (\E i \in 1..Len(out[sid]) : out[sid][i] = "verification_success")
        => /\ \E row \in results : row.session_id = sid /\ row.passed
           /\ Successes(hist[sid]) >= 3

C6_Witness ==
    \E tok \in tokens :
        /\ Last(out[tok.session_id]) = "verification_success"
        /\ Successes(hist[tok.session_id]) = 3
        /\ Len(hist[tok.session_id]) > 3

\* C7: when the scoring result is a fail (final score under 0.70), the handler
\* terminates the session (terminal status, end_time set, termination logged),
\* its last message is "verification_failed", and no credential is issued.
C7_FailedVerdictTerminatesWithoutToken ==
    [][(handled'.op = "verdict" /\ handled'.score < 7000)
       => LET sid == handled'.sid IN
          /\ sessions'[sid].status \in TerminalStatuses
          /\ sessions'[sid].end_time = Some(now)
          /\ TerminationsOf(audit_logs', sid) # {}
          /\ chan'[sid] = "closed"
          /\ Last(out'[sid]) = "verification_failed"
          /\ tokens' = tokens]_vars

C7_Witness ==
    /\ handled.op = "verdict"
    /\ handled.score < 7000
    /\ sessions[handled.sid].status \in TerminalStatuses
    /\ Last(out[handled.sid]) = "verification_failed"
    /\ \A tok \in tokens : tok.session_id # handled.sid

\* C8: a connect binds the channel only if the session exists and is not timed
\* out; for an unknown or timed-out session the channel gets "error" alone, is
\* closed, and no challenge is issued (no nonce recorded).
C8_BindOnlyKnownAndNotTimedOut ==
    [][handled'.op = "connect"
       => LET sid == handled'.sid IN
          \/ /\ sid \in DOMAIN sessions
             /\ now - sessions[sid].start_time <= 120
          \/ /\ chan'[sid] = "closed"
             /\ out'[sid] = <<"error">>
             /\ nonces' = nonces
             /\ sessions' = sessions]_vars

C8_Witness ==
    /\ handled.op = "connect"
    /\ handled.sid \in DOMAIN sessions
    /\ now - sessions[handled.sid].start_time > 120
    /\ chan[handled.sid] = "closed"
    /\ out[handled.sid] = <<"error">>

\* C9: after a challenge result is processed, if the session is timed out or
\* its last 3 results are failures, the handler has terminated it with the
\* matching reason ("timeout" giving TIMEOUT, "max_failures" giving FAILED),
\* sent "error" and closed the channel; and no result is processed for a session
\* that is terminated.
C9_PolicyRecheckAfterEveryChallenge ==
    [][\A sid \in DOMAIN sessions :
          /\ hist'[sid] # hist[sid]
              => LET timed_out == now - sessions'[sid].start_time > 120
                     over == TrailingFailures(hist'[sid]) >= 3
                 IN  (timed_out \/ over)
                     => /\ chan'[sid] = "closed"
                        /\ Last(out'[sid]) = "error"
                        /\ sessions'[sid].end_time = Some(now)
                        /\ \E reason \in {"timeout", "max_failures"} :
                              /\ reason = "timeout" => timed_out
                              /\ reason = "max_failures" => over
                              /\ sessions'[sid].status = StatusFor(reason)
                              /\ \E e \in TerminationsOf(audit_logs', sid) :
                                    e.details.reason = reason
          /\ sessions[sid].status \in TerminalStatuses => hist'[sid] = hist[sid]]_vars

C9_Witness ==
    /\ handled.op = "max_failures"
    /\ sessions[handled.sid].status = FAILED
    /\ chan[handled.sid] = "closed"
    /\ Last(out[handled.sid]) = "error"
    /\ TrailingFailures(hist[handled.sid]) = 3
    /\ Len(hist[handled.sid]) > 3

\* C11: a challenge result that arrives on a channel whose session is already
\* terminated is discarded: the session's counter, status and end_time stay as
\* they were, nothing is recorded, no score is computed, no credential issued.
C11_StaleResultDiscarded ==
    [][\A sid \in DOMAIN sessions :
          (/\ handled'.sid = sid
           /\ handled'.op \notin {"none", "connect"}
           /\ sessions[sid].status \in TerminalStatuses)
          => /\ sessions'[sid] = sessions[sid]
             /\ hist'[sid] = hist[sid]
             /\ results' = results
             /\ tokens' = tokens]_vars

\* A result has just arrived for a session the sweep terminated while its
\* channel was open and had results processed on it.
C11_Witness ==
    /\ handled.op = "stale"
    /\ sessions[handled.sid].status = TIMEOUT
    /\ progress[handled.sid].done > 0
    /\ sessions[handled.sid].failed_count = TrailingFailures(hist[handled.sid])
    /\ chan[handled.sid] = "closed"

------------------------------------------------------------------------------
(* Properties of the policy queries *)

Elapsed(sid) == now - sessions[sid].start_time

------------------------------------------------------------------------------
(* Properties of the nonce store *)

\* C18: after store(N, ...) is_used(N) is true whatever the expiry; a used
\* nonce stops being used only by a purge; a nonce becomes used only by being
\* stored, so a never-stored nonce is not used.
C18_UsedFromStoreUntilPurge ==
    [][\A n \in Nonces :
          /\ (handled'.op = "store_nonce" /\ handled'.arg = n)
                => check_nonce_used(nonces', n)
          /\ (check_nonce_used(nonces, n) /\ ~check_nonce_used(nonces', n))
                => handled'.op = "purge_expired_nonces"
          /\ (~check_nonce_used(nonces, n) /\ check_nonce_used(nonces', n))
                => (handled'.op = "store_nonce" /\ handled'.arg = n)]_vars

\* A nonce has just been stored with an expiry already in the past and is used,
\* while the other nonce, never stored, is not.
C18_Witness ==
    /\ handled.op = "store_nonce"
    /\ check_nonce_used(nonces, handled.arg)
    /\ nonces[handled.arg].expires_at < now
    /\ \E n \in Nonces : ~check_nonce_used(nonces, n) /\ n \notin purged

\* C19: the purge leaves every expired nonce unused, and a nonce a purge has
\* removed is stored again like a fresh one: the store succeeds and the nonce
\* is used again.
C19_NonceReusableAfterPurge ==
    [][/\ handled'.op = "purge_expired_nonces"
          => \A n \in DOMAIN nonces :
                nonces[n].expires_at < now => ~check_nonce_used(nonces', n)
       /\ \A n \in purged :
            ~check_nonce_used(nonces, n) /\ handled'.op = "store_nonce" /\ handled'.arg = n
              => raised' = "ok" /\ check_nonce_used(nonces', n)]_vars

\* A nonce that a purge removed has just been stored again.
C19_Witness ==
    /\ handled.op = "store_nonce"
    /\ handled.arg \in purged
    /\ check_nonce_used(nonces, handled.arg)
    /\ raised = "ok"

\* C20: purge_expired(now) removes exactly the records with expires_at < now,
\* leaves the others as they were, returns the number it removed, and a purge
\* right after a purge returns 0.
C20_PurgeRemovesExactlyExpired ==
    [][handled'.op = "purge_expired_nonces"
       => /\ DOMAIN nonces' = {n \in DOMAIN nonces : ~(nonces[n].expires_at < now)}
          /\ \A n \in DOMAIN nonces' : nonces'[n] = nonces[n]
          /\ handled'.score = Cardinality(DOMAIN nonces \ DOMAIN nonces')
          /\ handled.op = "purge_expired_nonces" => handled'.score = 0]_vars

\* A purge has just removed one record and kept one that expires right now.
C20_Witness ==
    /\ handled.op = "purge_expired_nonces"
    /\ handled.score = 1
    /\ purged # {}
    /\ \E n \in DOMAIN nonces : nonces[n].expires_at = now

------------------------------------------------------------------------------
(* Properties of concurrent delivery *)

RECURSIVE FoldResults(_, _)
\* The counter after the results of seq are applied one after the other.
FoldResults(count, seq) ==
    IF seq = <<>> THEN count
    ELSE FoldResults(IF seq[1] THEN 0 ELSE count + 1, SubSeq(seq, 2, Len(seq)))

\* The sequential orders in which the results of seq can be applied.
Orders(seq) ==
    {[i \in 1..Len(seq) |-> seq[p[i]]] : p \in Permutations(1..Len(seq))}

\* C10: when the results delivered concurrently for a session have all been
\* written, its consecutive_failure_count is the value some sequential order of
\* those results produces from the counter they started from (no lost update).
C10_CounterLinearizable ==
    \A sid \in DOMAIN sessions :
        Quiescent(sid)
            => sessions[sid].failed_count \in
                 {FoldResults(inflight.base[sid], o) : o \in Orders(inflight.batch[sid])}

------------------------------------------------------------------------------
(* Properties of the challenge engine *)

\* The table of verify_challenge from instruction texts back to action keys
INSTRUCTION_TO_ACTION(instruction) ==
    LET hits == {a \in GESTURE_POOL : GESTURE_INSTRUCTIONS(a) = instruction}
                \cup {a \in EXPRESSION_POOL : EXPRESSION_INSTRUCTIONS(a) = instruction}
    IN IF hits = {} THEN <<>> ELSE CHOOSE a \in hits : TRUE

\* C21: generate_challenge_sequence(session_id, n) returns exactly n
\* challenges; their challenge_ids are pairwise distinct and each contains the
\* session_id it was called with.
C21_SequenceShape ==
    sequence # None =>
        LET sid == ValueOf(sequence).returned.session_id
            cs == ValueOf(sequence).returned.challenges
        IN /\ Len(cs) = ValueOf(sequence).num_challenges
           /\ \A i, j \in 1..Len(cs) :
                  i # j => cs[i].challenge_id # cs[j].challenge_id
           /\ \A i \in 1..Len(cs) : find(cs[i].challenge_id, sid) # -1

\* A sequence of three challenges, two of which ask for the same action of the
\* same type.
C21_Witness ==
    /\ sequence # None
    /\ LET cs == ValueOf(sequence).returned.challenges
       IN /\ Len(cs) = MaxChallenges
          /\ cs[1].type = cs[2].type
          /\ cs[1].instruction = cs[2].instruction

\* C23: reading a generated challenge_id back recovers exactly the kind and
\* the action that were encoded in it, for every session_id string.
C23_DecodeRecoversKindAndAction ==
    decoded # None =>
        LET c == ValueOf(sequence).returned.challenges[ValueOf(decoded).challenge]
            read == ValueOf(decoded).read
        IN /\ read.marker = TypeMarker(c.type)
           /\ read.action = INSTRUCTION_TO_ACTION(c.instruction)

\* C24: every generated challenge, and every "challenge_issued" message sent
\* to the client, carries timeout_seconds equal to 10.
C24_TimeoutSecondsIsTen ==
    /\ sequence # None =>
           \A i \in 1..Len(ValueOf(sequence).returned.challenges) :
               ValueOf(sequence).returned.challenges[i].timeout_seconds
                   = CHALLENGE_TIMEOUT_SECONDS
    /\ \A k \in 1..Len(sent) :
           sent[k].type = "challenge_issued" =>
               sent[k].data.timeout_seconds = CHALLENGE_TIMEOUT_SECONDS

------------------------------------------------------------------------------
(* Further properties of the orchestrator and of the WebSocket handler *)

\* C25: when a connect binds the channel (the session exists, is not timed
\* out, and the nonce of the first sequence is fresh), the first message on
\* the channel is "challenge_issued" and the nonce is recorded; a recorded
\* nonce stays used from then on, unless a purge removes it once expired.
C25_BindIssuesFirstSequence ==
    [][/\ (/\ handled'.op = "connect"
           /\ may_bind(sessions, handled'.sid, now)
           /\ ~check_nonce_used(nonces, handled'.arg))
          => /\ chan'[handled'.sid] = "open"
             /\ out'[handled'.sid] = <<"challenge_issued">>
             /\ check_nonce_used(nonces', handled'.arg)
             /\ nonces'[handled'.arg].session_id = handled'.sid
       /\ \A n \in DOMAIN nonces :
             check_nonce_used(nonces', n) \/ nonces[n].expires_at < now]_vars

\* A bound channel that has carried more than its first message, the nonce of
\* its session still used.
C25_Witness ==
    \E sid \in SessionIds :
        /\ chan[sid] = "open"
        /\ Len(out[sid]) >= 2
        /\ out[sid][1] = "challenge_issued"
        /\ \E n \in DOMAIN nonces : nonces[n].session_id = sid

C29_OnlyCumulativeStateAborts ==
    [][\A sid \in DOMAIN sessions :
          (/\ sessions[sid].status = ACTIVE
           /\ sessions'[sid].status \in {FAILED, TIMEOUT})
          => \/ now - sessions[sid].start_time > 120
             \/ TrailingFailures(hist'[sid]) >= 3
             \/ /\ handled'.op \in {"connect", "issue"}
                /\ handled'.sid = sid
                /\ handled'.arg \in DOMAIN nonces
             \/ /\ handled'.op = "verdict"
                /\ handled'.sid = sid
                /\ handled'.score < 7000]_vars

\* A failed challenge was just processed and the session is still ACTIVE, its
\* channel open.
C29_Witness ==
    /\ handled.op \in {"next", "issue"}
    /\ handled.sid \in DOMAIN sessions
    /\ sessions[handled.sid].status = ACTIVE
    /\ chan[handled.sid] = "open"
    /\ Len(hist[handled.sid]) >= 1
    /\ ~Last(hist[handled.sid])

\* C28: a failing run of the sweep changes nothing of a verification in
\* flight: channels, messages, results, tokens and recorded nonces are as
\* before, a session that is not an ACTIVE timed-out one keeps its row, and
\* whatever the run left undone (timed-out sessions, expired nonces) is still
\* there for the sweep's next run.
C28_SweepFailureIsBestEffort ==
    [][handled'.op = "sweep_failed"
       => /\ chan' = chan /\ out' = out /\ progress' = progress
          /\ results' = results /\ tokens' = tokens /\ hist' = hist
          /\ nonces' = nonces
          /\ \A sid \in DOMAIN sessions :
                \/ sessions'[sid] = sessions[sid]
                \/ /\ sid \in SweepTargets(sessions, now)
                   /\ sessions'[sid].status = TIMEOUT
          /\ \A sid \in SweepTargets(sessions, now) :
                sessions'[sid].status = TIMEOUT \/ sid \in SweepTargets(sessions', now)
          /\ purge_expired_nonces(nonces', now) = purge_expired_nonces(nonces, now)]_vars

\* A run of the sweep has failed with an expired nonce and a timed-out session
\* left behind, while another session is ACTIVE on an open channel with a
\* result recorded.
C28_Witness ==
    /\ handled.op = "sweep_failed"
    /\ SweepTargets(sessions, now) # {}
    /\ \E n \in DOMAIN nonces : nonces[n].expires_at < now
    /\ \E sid \in DOMAIN sessions :
          /\ sessions[sid].status = ACTIVE
          /\ ~is_timed_out(sessions, sid, now)
          /\ chan[sid] = "open"
          /\ Len(hist[sid]) >= 1

------------------------------------------------------------------------------
(* Properties of the token issuer *)

\* C30: a token validated by the issuer that issued it, before the second of
\* its expiry, is valid; the validation returns the user as subject, the
\* session id, and an expiry exactly 900 seconds after the issue time.
C30_TokenRoundTrip ==
    validation # None =>
        LET v == ValueOf(validation)
            signed == v.token.signature.data
            claims == signed.over[2].data
        IN (/\ v.origin = "issued"
            /\ v.by = signed.key
            /\ v.at < int(ValueOf(payload_get(claims, "exp"))))
           => /\ v.result # None
              /\ ValueOf(v.result).valid
              /\ ValueOf(v.result).error = None
              /\ ValueOf(v.result).user_id = payload_get(claims, "sub")
              /\ ValueOf(v.result).user_id \in {Some(u) : u \in TokenUsers}
              /\ ValueOf(v.result).session_id = payload_get(claims, "session_id")
              /\ ValueOf(v.result).session_id \in {Some(sid) : sid \in SessionIds}
              /\ ValueOf(ValueOf(v.result).expires_at)
                     - ValueOf(ValueOf(v.result).issued_at) = time_time(900, 0)

\* A token issued at 0 for user2 and s2 was validated by its issuer at 899.
C30_Witness ==
    /\ validation # None
    /\ ValueOf(validation).origin = "issued"
    /\ ValueOf(validation).by = ValueOf(validation).token.signature.data.key
    /\ ValueOf(validation).at = time_time(899, 0)
    /\ ValueOf(validation).result # None
    /\ ValueOf(ValueOf(validation).result).valid
    /\ ValueOf(ValueOf(validation).result).user_id = Some("user2")
    /\ ValueOf(ValueOf(validation).result).session_id = Some("s2")
    /\ ValueOf(ValueOf(validation).result).issued_at = Some(0)

\* C31: a token validated by the issuer that issued it is valid at every time
\* before issue time + 900 seconds, and at every time from then on it is not
\* valid and the error is the expiry.
C31_ValidExactlyUntilExpiry ==
    validation # None =>
        LET v == ValueOf(validation)
            claims == v.token.claims.data
        IN (/\ v.origin = "issued"
            /\ v.by = v.token.signature.data.key)
           => /\ v.result # None
              /\ IF v.at < ValueOf(payload_get(claims, "iat")) + time_time(900, 0)
                   THEN ValueOf(v.result).valid
                   ELSE /\ ~ValueOf(v.result).valid
                        /\ ValueOf(v.result).error \in {Some(e) : e \in EXPIRED}

\* C32: validate_token returns a TokenValidation for every token presented,
\* issued, expired, signed by another key or for another issuer or algorithm,
\* changed in a byte, or text that is no token: no exception leaves it.
C32_ValidateAlwaysReturns ==
    validation # None => ValueOf(validation).result # None

\* Text with one segment only has been validated: the result is a value.
C32_Witness ==
    /\ validation # None
    /\ ValueOf(validation).origin = "crafted"
    /\ ValueOf(validation).token.segments = 1
    /\ ValueOf(validation).result # None
    /\ ~ValueOf(ValueOf(validation).result).valid

\* C33: a result that is not valid carries an error of exactly one of the
\* kinds EXPIRED, BAD_SIGNATURE, MALFORMED and no decoded claim; a valid
\* result carries no error.
C33_ErrorKindsExclusive ==
    (validation # None /\ ValueOf(validation).result # None) =>
        LET r == ValueOf(ValueOf(validation).result) IN
        IF r.valid
            THEN r.error = None
            ELSE /\ r.error # None
                 /\ Cardinality({K \in {EXPIRED, BAD_SIGNATURE, MALFORMED} :
                                     ValueOf(r.error) \in K}) = 1
                 /\ r.user_id = None
                 /\ r.session_id = None
                 /\ r.issued_at = None
                 /\ r.expires_at = None

\* An issued token has been validated by the other issuer: bad signature.
C33_Witness ==
    /\ validation # None
    /\ ValueOf(validation).origin = "issued"
    /\ ValueOf(validation).by # ValueOf(validation).token.signature.data.key
    /\ ValueOf(validation).result # None
    /\ ValueOf(ValueOf(validation).result).error = Some("Invalid token signature")
    /\ ValueOf(ValueOf(validation).result).user_id = None

\* C34: a token that differs in one byte from a token its issuer finds valid
\* is found not valid by that issuer, with a bad signature or malformed error.
C34_TamperedTokenRejected ==
    validation # None =>
        LET v == ValueOf(validation)
            before == validate_token(v.original, v.by, v.at)
        IN (/\ v.origin = "tampered"
            /\ before # None
            /\ ValueOf(before).valid)
           => /\ v.result # None
              /\ ~ValueOf(v.result).valid
              /\ ValueOf(v.result).error
                     \in {Some(e) : e \in BAD_SIGNATURE \cup MALFORMED}

------------------------------------------------------------------------------
(* Properties of the scoring engine *)

\* C35: the result of compute_final_score has final = 0.4 liveness +
\* 0.3 deepfake + 0.3 emotion and passed exactly when final >= 0.70: a final
\* score of 0.69 does not pass, one of exactly 0.70 passes.
C35_PassedIffFinalAtLeastThreshold ==
    scored # None =>
        LET c == ValueOf(scored)
            r == c.returned
        IN /\ r.final_score = 40 * c.liveness + 30 * c.deepfake + 30 * c.emotion
           /\ r.passed = (r.final_score >= 7000)
           /\ r.final_score = 6900 => ~r.passed
           /\ r.final_score = 7000 => r.passed

\* Scores 0.7, 0.7, 0.7 have been scored: exactly 0.70, passed.
C35_Witness ==
    /\ scored # None
    /\ ValueOf(scored).liveness = 70
    /\ ValueOf(scored).deepfake = 70
    /\ ValueOf(scored).emotion = 70
    /\ ValueOf(scored).returned.final_score = 7000
    /\ ValueOf(scored).returned.passed

------------------------------------------------------------------------------
(* Properties of session creation and of the guards of the orchestrator *)

\* C36: a create adds exactly one session, under an id no existing session
\* has, with status ACTIVE, failure count 0, the creation time as start_time
\* and no end_time; the sessions that existed stay as they were.
C36_CreateAllocatesFreshActive ==
    [][(\E u \in Users : Create(u)) =>
          \E sid \in DOMAIN sessions' :
              /\ sid \notin DOMAIN sessions
              /\ DOMAIN sessions' = DOMAIN sessions \cup {sid}
              /\ sessions'[sid].status = ACTIVE
              /\ sessions'[sid].failed_count = 0
              /\ sessions'[sid].start_time = now
              /\ sessions'[sid].end_time = None
              /\ sessions'[sid].user_id \in Users
              /\ \A other \in DOMAIN sessions : sessions'[other] = sessions[other]]_vars

\* Two sessions of the same user exist, created at different times.
C36_Witness ==
    /\ DOMAIN sessions = {"s1", "s2"}
    /\ sessions["s1"].user_id = sessions["s2"].user_id
    /\ sessions["s1"].start_time = 0
    /\ sessions["s2"].start_time = 121
    /\ sessions["s2"].status = ACTIVE
    /\ sessions["s2"].failed_count = 0
    /\ sessions["s2"].end_time = None

\* C37: no connect binds a channel to, and no step issues a challenge sequence
\* for, a session whose status is COMPLETED, FAILED or TIMEOUT when the step
\* begins.
C37_NoBindOnTerminalSession ==
    [][\A sid \in DOMAIN sessions :
          (/\ handled'.sid = sid
           /\ handled'.op \in {"connect", "issue", "next", "verdict", "stale",
                               "timeout", "max_failures"}
           /\ sessions[sid].status \in TerminalStatuses)
          => /\ chan'[sid] # "open"
             /\ \A i \in 1..Len(out'[sid]) : out'[sid][i] # "challenge_issued"]_vars

------------------------------------------------------------------------------
(* Properties of the nonce store's answers and of the sweep's progress *)

\* C39: check_nonce_used of either service, asked for a nonce whose record
\* exists, answers that it is used, also when the query to the store fails.
C39_StoredNonceNeverReportedUnused ==
    (/\ handled.op \in {"check_nonce_used", "check_nonce_used_convex"}
     /\ handled.arg \in DOMAIN nonces)
    => handled.score = 1

\* C40: a session that is ACTIVE and older than 120 seconds is eventually
\* TIMEOUT, whatever its client does; and a session created early enough for
\* the clock to pass its 120 seconds does not stay ACTIVE forever.
C40_TimedOutSessionEventuallyTimeout ==
    \A sid \in SessionIds :
        /\ (/\ sid \in DOMAIN sessions
            /\ sessions[sid].status = ACTIVE
            /\ now - sessions[sid].start_time > MAX_SESSION_DURATION_SECONDS)
           ~> (sid \in DOMAIN sessions /\ sessions[sid].status = TIMEOUT)
        /\ (/\ sid \in DOMAIN sessions
            /\ sessions[sid].start_time + MAX_SESSION_DURATION_SECONDS < MaxNow)
           ~> (sid \in DOMAIN sessions /\ sessions[sid].status # ACTIVE)

\* A session whose client never connected has been timed out by the sweep.
C40_Witness ==
    /\ "s1" \in DOMAIN sessions
    /\ sessions["s1"].status = TIMEOUT
    /\ now - sessions["s1"].start_time > MAX_SESSION_DURATION_SECONDS
    /\ sessions["s1"].end_time = Some(now)
    /\ chan["s1"] = "none"
    /\ hist["s1"] = <<>>

====
